---- MODULE Spec2Model ----
(***************************************************************************)
(* Model of the WebsocketClient of cexio-exchange-plus                     *)
(* (lib/websocket.js and its TypeScript twin src/websocket.ts).            *)
(*                                                                         *)
(* One client object.  Every connect() creates a new WebSocket; the        *)
(* listeners of an earlier WebSocket stay attached to the same client.     *)
(* JavaScript runs one callback at a time, so every handler is one step.   *)
(* The continuation of `await this.#auth()` in the 'connected' handler is  *)
(* taken in the step that settles the auth promise.                        *)
(*                                                                         *)
(* The RestClient (src/rest.ts) is a separate object; of it the request    *)
(* counter of its rate limiter is modelled.                                *)
(***************************************************************************)
EXTENDS Integers, Sequences, FiniteSets, TLC

\* ---------------------------------------------------------------- bounds
\* SpecRegistry: one connection, several requests in flight
RegConns == 1      \* connect() calls
RegAuths == 1      \* #auth() invocations
RegCalls == 2      \* #callRequest registrations
\* Spec: reconnects and repeated handshakes, one request
SesConns == 2
SesWork  == 2      \* #auth() invocations plus #callRequest registrations
MaxTick  == 0      \* distinct later values of Date.now()
\* SpecRest: the rate limiter of the REST client
MaxClock == 5      \* last value of the clock, in ticks
MaxOver  == 2      \* calls made in a minute after the limit was reached
\* SpecOid: requests made at different times, before and after a reconnect
OidCalls == 3      \* #callRequest registrations
OidSeqs  == 12     \* sequence numbers for which oid strings are compared

Max(a, b) == IF a > b THEN a ELSE b
MaxConn  == Max(RegConns, SesConns)
MaxCalls == Max(Max(RegCalls, SesWork), OidCalls)
MaxAuth  == Max(RegAuths, SesWork)

\* Date.now() is a 13 digit number of milliseconds; the model keeps the
\* fixed width and scales it down to two digits.
Epoch == 10

Conns  == 1..MaxConn
Calls  == 1..MaxCalls
Auths  == 1..MaxAuth
Times  == Epoch..(Epoch + MaxTick)

Methods == {"get_ticker"}
UserCallbacks == {"h1", "h2"}
EventNames == {"connected", "disconnected", "auth", "tick"}

\* ------------------------------------------------------------ oid strings
\* A string of decimal digits without leading zero is represented by the
\* number it spells; "<digits>_<method>" is the pair <<digits, method>>.
RECURSIVE Pow10Above(_, _)
Pow10Above(n, p) == IF n < p THEN p ELSE Pow10Above(n, p * 10)

\* `${a}${b}` for two positive numbers: the digits of a followed by those of b
ConcatDigits(a, b) == a * Pow10Above(b, 10) + b

\* (variant) an oid made of the time and the method only
MakeOidNoSeq(now, seq, method) == <<now, method>>

\* oid = `${Date.now()}${++this.#oidSeqId}_${method}`
MakeOid(now, seq, method) == <<ConcatDigits(now, seq), method>>

NoOid   == <<0, "">>          \* frame without oid
AuthOid == <<0, "auth">>      \* the literal oid 'auth'
StaleOid == <<999, "get_ticker">>   \* an oid the client never generated

\* ------------------------------------------------------------------ frames
\* message.data: an object with optional fields, or absent
NoData == [present |-> FALSE, ok |-> "undefined", error |-> "undefined", val |-> "undefined"]
DataVal(v) == [present |-> TRUE, ok |-> "undefined", error |-> "undefined", val |-> v]
DataErr(e) == [present |-> TRUE, ok |-> "undefined", error |-> e, val |-> "undefined"]
DataAuth(o, e) == [present |-> TRUE, ok |-> o, error |-> e, val |-> "undefined"]

Frame(e, oid, ok, data) == [e |-> e, oid |-> oid, ok |-> ok, data |-> data]

NamedFrames ==
  { Frame(e, NoOid, "undefined", NoData) :
      e \in {"connected", "disconnected", "pong", "tick"} }

AuthFrames ==
  { Frame("auth", AuthOid, "ok", DataAuth("ok", "undefined")),
    Frame("auth", AuthOid, "error", DataAuth("error", "bad signature")) }

ReplyData(ok) ==
  IF ok = "ok" THEN {DataVal("p1")}
               ELSE {DataErr("e1"), NoData}


\* frames the server can put on a connection, given the oids issued so far
ReplyFrames(oids) ==
  { Frame(e, o, ok, d) :
      e \in {"", "tick"}, o \in oids \cup {StaleOid}, ok \in {"ok"},
      d \in ReplyData("ok") }
  \cup
  { Frame(e, o, ok, d) :
      e \in {"", "tick"}, o \in oids \cup {StaleOid}, ok \in {"error"},
      d \in ReplyData("error") }

\* --------------------------------------------------------------- promises
\* A promise (or the defer of #getDefer) settles once; later resolve/reject
\* calls are ignored.
NoPromise == [st |-> "none", data |-> NoData, error |-> "-", oid |-> NoOid,
              unexpectedError |-> FALSE]
Pending == [NoPromise EXCEPT !.st = "pending"]

PromiseResolve(p, d) ==
  IF p.st = "pending" THEN [p EXCEPT !.st = "resolved", !.data = d] ELSE p

\* (variant) a reject that also overwrites a settled promise
RejectAlways(p, err, oid, unexpected) ==
  [p EXCEPT !.st = "rejected", !.error = err, !.oid = oid,
            !.unexpectedError = unexpected]

\* reject(value): value is either a plain error (oid absent) or the object
\* {oid, error, unexpectedError: true}
PromiseReject(p, err, oid, unexpected) ==
  IF p.st = "pending"
    THEN [p EXCEPT !.st = "rejected", !.error = err, !.oid = oid,
                   !.unexpectedError = unexpected]
    ELSE p

\* ------------------------------------------------------------------ state
VARIABLES
  isPublicClient,  \* #isPublicClient
  oidSeqId,        \* #oidSeqId
  handlers,        \* #handlers: event name -> callback
  waitForResp,     \* #waitForResp: oid -> defer (the call that owns it)
  waitTimers,      \* #waitTimers: oid -> timer handle (state of the timer)
  isAuthorized,    \* #isAuthorized
  socket,          \* #socket: 0 = undefined, else the connection it refers to
  transport,       \* state of every WebSocket created by connect()
  connectP,        \* the promise returned by each connect()
  authP,           \* the promise of each #auth() invocation
  authFor,         \* the connect() whose 'connected' handler awaits authP[h]
  authSendCb,      \* send callback of each auth frame
  callOid,         \* oid generated for each #callRequest registration
  outcome,         \* the defer's promise of each registration
  sendCb,          \* send callback of each request frame
  sent,            \* request and auth frames handed to socket.send
  authVia,         \* the connection whose 'message' event settled authP[h]
  ret,             \* what the last operation returned or threw, the last reply logged
  \* RestClient
  restIsPublicClient,  \* #isPublicClient of the REST client
  apiSecret,           \* "set" or "undefined"
  requestCounter,      \* #requestCounter
  lastMinute,          \* #lastMinute
  clock,               \* Date.now(), in ticks
  fetched,             \* per minute, the number of fetch() calls made in it
  restRet              \* what the last REST call did or threw

wsVars == <<isPublicClient, oidSeqId, handlers, waitForResp, waitTimers,
            isAuthorized, socket, transport, connectP, authP, authFor,
            authSendCb, callOid, outcome, sendCb, sent, authVia, ret>>

restVars == <<restIsPublicClient, apiSecret, requestCounter, lastMinute, clock,
              fetched, restRet>>

vars == <<wsVars, restVars>>

EmptyMap == [o \in {} |-> 0]

NoHandler == [kind |-> "none", n |-> 0, cb |-> "-"]
Internal(kind, n) == [kind |-> kind, n |-> n, cb |-> "-"]
UserHandler(cb) == [kind |-> "user", n |-> 0, cb |-> cb]

NoFrame == Frame("", NoOid, "undefined", NoData)
RetOid(op, res, oid) == [op |-> op, res |-> res, oid |-> oid, msg |-> NoFrame]
Ret(op, res) == RetOid(op, res, NoOid)
\* a reply handed to a registered defer: the message as logged
RetReply(res, m) == [op |-> "message", res |-> res, oid |-> m.oid, msg |-> m]

\* a step that changed the session state and threw nothing
Quiet == Ret("-", "-")

\* socket.readyState of connection c ("ERRORED" is CLOSING with the receiver
\* detached after an 'error' event)
ReadyState(c) ==
  IF transport[c] = "ERRORED" THEN "CLOSING" ELSE transport[c]

\* (variant) only tests that a socket object exists
SocketExists == socket # 0

\* this.#socket && this.#socket.readyState === WebSocket.OPEN
SocketOpen == socket # 0 /\ ReadyState(socket) = "OPEN"

\* this.#handlers[message.e]
HandlerOf(e) == IF e \in DOMAIN handlers THEN handlers[e] ELSE NoHandler

\* new WebsocketClient(options) is a public client,
\* new WebsocketClient(apiKey, apiSecret, options) a private one
InitClient ==
  /\ oidSeqId = 0
  /\ handlers = [e \in EventNames |-> NoHandler]
  /\ waitForResp = EmptyMap
  /\ waitTimers = EmptyMap
  /\ isAuthorized = FALSE
  /\ socket = 0
  /\ transport = [c \in Conns |-> "NONE"]
  /\ connectP = [c \in Conns |-> NoPromise]
  /\ authP = [h \in Auths |-> NoPromise]
  /\ authFor = [h \in Auths |-> 0]
  /\ authSendCb = [h \in Auths |-> "none"]
  /\ callOid = [k \in Calls |-> NoOid]
  /\ outcome = [k \in Calls |-> NoPromise]
  /\ sendCb = [k \in Calls |-> "none"]
  /\ sent = {}
  /\ authVia = [h \in Auths |-> 0]
  /\ ret = Quiet

\* ------------------------------------------------------------ REST client
\* options.apiLimit (default 300, scaled down)
ApiLimit == 3

\* a minute of 60000 ms, scaled down to two ticks
TicksPerMinute == 2

Minutes == 0..(MaxClock \div TicksPerMinute)

\* Math.floor(Date.now() / 60000)
CurrentMinute == clock \div TicksPerMinute

RestRet(op, res) == [op |-> op, res |-> res]
RestQuiet == RestRet("-", "-")

\* new RestClient(options) is a public client without a secret,
\* new RestClient(apiKey, apiSecret, options) a private one
RestKinds == {<<TRUE, "undefined">>, <<FALSE, "set">>, <<FALSE, "undefined">>}

InitRestClient(kind) ==
  /\ clock = 0
  /\ restIsPublicClient = kind[1]
  /\ apiSecret = kind[2]
  /\ requestCounter = 0
  /\ lastMinute = CurrentMinute
  /\ fetched = [m \in Minutes |-> 0]
  /\ restRet = RestQuiet

Init == isPublicClient \in BOOLEAN /\ InitClient /\ InitRestClient(<<TRUE, "undefined">>)

InitPrivate == isPublicClient = FALSE /\ InitClient /\ InitRestClient(<<TRUE, "undefined">>)

InitRest ==
  /\ isPublicClient = TRUE
  /\ InitClient
  /\ \E kind \in RestKinds : InitRestClient(kind)

\* time passes
ClockTick ==
  /\ clock < MaxClock
  /\ clock' = clock + 1
  /\ restRet' = RestQuiet
  /\ UNCHANGED <<restIsPublicClient, apiSecret, requestCounter, lastMinute, fetched>>
  /\ UNCHANGED wsVars

\* (variant) starts a new count whenever the minute is not an earlier one
CounterBaseAlways(cm) == IF cm >= lastMinute THEN 0 ELSE requestCounter

\* #limitReached: if (currentMinute > this.#lastMinute) this.#requestCounter = 0
CounterBase(cm) == IF cm > lastMinute THEN 0 ELSE requestCounter

\* ++this.#requestCounter
LimitCounter == CounterBase(CurrentMinute) + 1

LimitLastMinute ==
  IF CurrentMinute > lastMinute THEN CurrentMinute ELSE lastMinute

\* return ++this.#requestCounter >= this.#options.apiLimit
LimitReached == LimitCounter >= ApiLimit

RateLimitError == "Internal API call rate limit reached."

\* #request(action, body, headers, method, isPublicRequest) up to fetch()
Request(op) ==
  /\ LimitCounter <= ApiLimit + MaxOver
  /\ requestCounter' = LimitCounter
  /\ lastMinute' = LimitLastMinute
  /\ IF LimitReached
       THEN /\ restRet' = RestRet(op, RateLimitError)
            /\ UNCHANGED fetched
       ELSE /\ fetched' = [fetched EXCEPT ![CurrentMinute] = @ + 1]
            /\ restRet' = RestRet(op, "fetch")

\* RestClient.callPublic(action, params)
RestCallPublic ==
  /\ Request("callPublic")
  /\ UNCHANGED <<restIsPublicClient, apiSecret, clock>>
  /\ UNCHANGED wsVars

\* RestClient.callPrivate(action, params)
RestCallPrivate ==
  /\ IF restIsPublicClient
       THEN /\ restRet' = RestRet("callPrivate", "Attempt to call private method on public client")
            /\ UNCHANGED <<requestCounter, lastMinute, fetched>>
       ELSE IF apiSecret = "undefined"
         THEN \* #getSignature
              /\ restRet' = RestRet("callPrivate", "No apiSecret set")
              /\ UNCHANGED <<requestCounter, lastMinute, fetched>>
         ELSE Request("callPrivate")
  /\ UNCHANGED <<restIsPublicClient, apiSecret, clock>>
  /\ UNCHANGED wsVars

NextRest ==
  \/ ClockTick
  \/ RestCallPublic
  \/ RestCallPrivate

SpecRest == InitRest /\ [][NextRest]_vars


\* ------------------------------------------------------------- registry
Delete(f, o) == [x \in (DOMAIN f) \ {o} |-> f[x]]
Put(f, o, v) == [x \in (DOMAIN f) \cup {o} |-> IF x = o THEN v ELSE f[x]]

\* clearTimeout(handle)
ClearTimeout(t) == IF t = "armed" THEN "cleared" ELSE t

\* (variant) passes the close argument on as it is
ReasonRaw(err) == err

\* err || 'connection closed'
ReasonOr(err) == IF err = "undefined" THEN "connection closed" ELSE err

\* #cancelAllOidReplies(err): the three pieces of state it writes
CancelAllOutcome(err) ==
  [k \in Calls |->
     IF \E o \in DOMAIN waitForResp : waitForResp[o] = k
       THEN LET o == CHOOSE x \in DOMAIN waitForResp : waitForResp[x] = k
            IN PromiseReject(outcome[k], ReasonOr(err), o, TRUE)
       ELSE outcome[k]]

CancelAllTimers ==
  [o \in DOMAIN waitTimers |->
     IF o \in DOMAIN waitForResp THEN ClearTimeout(waitTimers[o])
                                 ELSE waitTimers[o]]

CancelAllRegistry == EmptyMap


\* --------------------------------------------------------------- connect
\* connect(onClose, onError): a new WebSocket and a new promise; the two
\* internal handlers are (re)registered with #addHandler
NextConn == CHOOSE c \in Conns : transport[c] = "NONE" /\ \A d \in Conns : d < c => transport[d] # "NONE"

\* (variant) a connect() that starts from an empty handler table
ConnectFresh ==
  /\ \E c \in Conns : transport[c] = "NONE"
  /\ LET c == NextConn IN
       /\ socket' = c
       /\ transport' = [transport EXCEPT ![c] = "CONNECTING"]
       /\ connectP' = [connectP EXCEPT ![c] = Pending]
       /\ handlers' = [e \in EventNames |->
                         IF e = "disconnected" THEN Internal("disconnected", 0)
                         ELSE IF e = "connected" THEN Internal("connected", c)
                         ELSE NoHandler]
       /\ ret' = Quiet
  /\ UNCHANGED <<isPublicClient, oidSeqId, waitForResp, waitTimers, isAuthorized,
                 authP, authFor, authSendCb, callOid, outcome, sendCb, sent, authVia>>
  /\ UNCHANGED restVars

Connect ==
  /\ \E c \in Conns : transport[c] = "NONE"
  /\ LET c == NextConn IN
       /\ socket' = c
       /\ transport' = [transport EXCEPT ![c] = "CONNECTING"]
       /\ connectP' = [connectP EXCEPT ![c] = Pending]
       /\ handlers' = [handlers EXCEPT !["disconnected"] = Internal("disconnected", 0),
                                       !["connected"] = Internal("connected", c)]
       /\ ret' = Quiet
  /\ UNCHANGED <<isPublicClient, oidSeqId, waitForResp, waitTimers, isAuthorized,
                 authP, authFor, authSendCb, callOid, outcome, sendCb, sent, authVia>>
  /\ UNCHANGED restVars

\* the WebSocket finishes its opening handshake (no listener in the client)
TransportOpen(c) ==
  /\ transport[c] = "CONNECTING"
  /\ transport' = [transport EXCEPT ![c] = "OPEN"]
  /\ ret' = Quiet
  /\ UNCHANGED <<isPublicClient, oidSeqId, handlers, waitForResp, waitTimers,
                 isAuthorized, socket, connectP, authP, authFor, authSendCb,
                 callOid, outcome, sendCb, sent, authVia>>
  /\ UNCHANGED restVars

\* socket.on('close', err => ...) of connection c
CloseEvent(c, err) ==
  /\ transport[c] \in {"OPEN", "CLOSING", "ERRORED"}
  /\ transport' = [transport EXCEPT ![c] = "CLOSED"]
  /\ socket' = 0
  /\ isAuthorized' = FALSE
  /\ outcome' = CancelAllOutcome(err)
  /\ waitTimers' = CancelAllTimers
  /\ waitForResp' = CancelAllRegistry
  /\ connectP' = [connectP EXCEPT ![c] = PromiseReject(@, err, NoOid, FALSE)]
  /\ ret' = Quiet
  /\ UNCHANGED <<isPublicClient, oidSeqId, handlers, authP, authFor, authSendCb,
                 callOid, sendCb, sent, authVia>>
  /\ UNCHANGED restVars

\* socket.on('error', err => ...) of connection c
ErrorEvent(c, err) ==
  /\ transport[c] \in {"CONNECTING", "OPEN", "CLOSING"}
  /\ transport' = [transport EXCEPT ![c] = "ERRORED"]
  /\ socket' = 0
  /\ UNCHANGED isAuthorized    \* the 'error' listener does not write #isAuthorized
  /\ outcome' = CancelAllOutcome(err)
  /\ waitTimers' = CancelAllTimers
  /\ waitForResp' = CancelAllRegistry
  /\ connectP' = [connectP EXCEPT ![c] = PromiseReject(@, err, NoOid, FALSE)]
  /\ ret' = Quiet
  /\ UNCHANGED <<isPublicClient, oidSeqId, handlers, authP, authFor, authSendCb,
                 callOid, sendCb, sent, authVia>>
  /\ UNCHANGED restVars

\* (variant) closes whatever socket the client holds
DisconnectAny ==
  /\ IF socket # 0 /\ transport[socket] \in {"CONNECTING", "OPEN"}
       THEN /\ transport' = [transport EXCEPT ![socket] = "CLOSING"]
            /\ ret' = Quiet
       ELSE /\ UNCHANGED transport
            /\ ret' = Ret("disconnect", "noop")
  /\ UNCHANGED <<isPublicClient, oidSeqId, handlers, waitForResp, waitTimers,
                 isAuthorized, socket, connectP, authP, authFor, authSendCb,
                 callOid, outcome, sendCb, sent, authVia>>
  /\ UNCHANGED restVars

\* disconnect()
Disconnect ==
  /\ IF SocketOpen
       THEN /\ transport' = [transport EXCEPT ![socket] = "CLOSING"]
            /\ ret' = Quiet
       ELSE /\ UNCHANGED transport
            /\ ret' = Ret("disconnect", "noop")
  /\ UNCHANGED <<isPublicClient, oidSeqId, handlers, waitForResp, waitTimers,
                 isAuthorized, socket, connectP, authP, authFor, authSendCb,
                 callOid, outcome, sendCb, sent, authVia>>
  /\ UNCHANGED restVars

\* subscribe(event, callback) -> #addHandler
Subscribe(e, cb) ==
  /\ handlers' = [handlers EXCEPT ![e] = UserHandler(cb)]
  /\ ret' = Quiet
  /\ UNCHANGED <<isPublicClient, oidSeqId, waitForResp, waitTimers, isAuthorized,
                 socket, transport, connectP, authP, authFor, authSendCb,
                 callOid, outcome, sendCb, sent, authVia>>
  /\ UNCHANGED restVars

\* (variant) sends the ping frame without looking at the socket
PingUnguarded ==
  /\ ret' = Ret("ping", "sent")
  /\ UNCHANGED <<isPublicClient, oidSeqId, handlers, waitForResp, waitTimers,
                 isAuthorized, socket, transport, connectP, authP, authFor,
                 authSendCb, callOid, outcome, sendCb, sent, authVia>>
  /\ UNCHANGED restVars

\* ping()
Ping ==
  /\ IF SocketOpen
       THEN ret' = Ret("ping", "sent")    \* socket.send('{"e": "ping"}'), no callback
       ELSE ret' = Ret("ping", "Not connected")
  /\ UNCHANGED <<isPublicClient, oidSeqId, handlers, waitForResp, waitTimers,
                 isAuthorized, socket, transport, connectP, authP, authFor,
                 authSendCb, callOid, outcome, sendCb, sent, authVia>>
  /\ UNCHANGED restVars


\* ------------------------------------------------------------- requests
\* #callRequest(method, params); op is the entry point that reached it
CallRequest(op, method, now) ==
  IF ~SocketOpen
    THEN /\ ret' = Ret(op, "Not connected")
         /\ UNCHANGED <<oidSeqId, waitForResp, waitTimers, callOid, outcome,
                        sendCb, sent>>
    ELSE /\ oidSeqId < MaxCalls
         /\ LET k == oidSeqId + 1
                oid == MakeOid(now, k, method)
            IN /\ oidSeqId' = k
               /\ waitForResp' = Put(waitForResp, oid, k)
               /\ waitTimers' = Put(waitTimers, oid, "armed")
               /\ callOid' = [callOid EXCEPT ![k] = oid]
               /\ outcome' = [outcome EXCEPT ![k] = Pending]
               /\ sendCb' = [sendCb EXCEPT ![k] = "pending"]
               /\ sent' = sent \cup {[conn |-> socket, e |-> method, oid |-> oid, n |-> 0]}
               /\ ret' = RetOid(op, "registered", oid)

\* callPublic(method, params)
CallPublic(method, now) ==
  /\ IF ~isPublicClient
       THEN /\ ret' = Ret("callPublic", "Attempt to call public method on private client")
            /\ UNCHANGED <<oidSeqId, waitForResp, waitTimers, callOid, outcome,
                           sendCb, sent>>
       ELSE CallRequest("callPublic", method, now)
  /\ UNCHANGED <<isPublicClient, handlers, isAuthorized, socket, transport,
                 connectP, authP, authFor, authSendCb, authVia>>
  /\ UNCHANGED restVars

\* callPrivate(method, params)
CallPrivate(method, now) ==
  /\ IF isPublicClient
       THEN /\ ret' = Ret("callPrivate", "Attempt to call private method on public client")
            /\ UNCHANGED <<oidSeqId, waitForResp, waitTimers, callOid, outcome,
                           sendCb, sent>>
       ELSE IF ~isAuthorized
         THEN /\ ret' = Ret("callPrivate", "Not authorized")
              /\ UNCHANGED <<oidSeqId, waitForResp, waitTimers, callOid, outcome,
                             sendCb, sent>>
         ELSE CallRequest("callPrivate", method, now)
  /\ UNCHANGED <<isPublicClient, handlers, isAuthorized, socket, transport,
                 connectP, authP, authFor, authSendCb, authVia>>
  /\ UNCHANGED restVars

\* the callback of socket.send(msg, err => ...) in #callRequest, for call k
SendFailRegistry(k) == Delete(waitForResp, callOid[k])

\* delete this.#waitForResp[oid]; this.#waitForResp[oid].reject(err):
\* the second statement reads the entry just deleted and throws a TypeError,
\* the defer is not rejected and the timer is not cleared
SendFailOutcome(k, err) == outcome

SendCallback(k, err) ==
  /\ sendCb[k] = "pending"
  /\ sendCb' = [sendCb EXCEPT ![k] = "done"]
  /\ IF err = "undefined"
       THEN /\ ret' = Quiet
            /\ UNCHANGED <<waitForResp, outcome>>
       ELSE /\ waitForResp' = SendFailRegistry(k)
            /\ outcome' = SendFailOutcome(k, err)
            /\ ret' = Ret("sendCallback", "TypeError")
  /\ UNCHANGED <<isPublicClient, oidSeqId, handlers, waitTimers, isAuthorized,
                 socket, transport, connectP, authP, authFor, authSendCb,
                 callOid, sent, authVia>>
  /\ UNCHANGED restVars

\* (variant) a timeout that cancels every registered call
CancelOidReplyAll(oid, reason) == CancelAllOutcome(reason)

\* #cancelOidReply(oid, reason)
CancelOidReplyOutcome(oid, reason) ==
  IF oid \in DOMAIN waitForResp
    THEN [outcome EXCEPT ![waitForResp[oid]] = PromiseReject(@, reason, oid, TRUE)]
    ELSE outcome

\* (variant) rejects on timeout but keeps the entry
CancelOidReplyKeep(oid) == waitForResp

CancelOidReplyRegistry(oid) ==
  IF oid \in DOMAIN waitForResp THEN Delete(waitForResp, oid) ELSE waitForResp

\* the timer armed in #callRequest fires: () => this.#cancelOidReply(oid, 'request timeout')
TimerFire(oid) ==
  /\ oid \in DOMAIN waitTimers
  /\ waitTimers[oid] = "armed"
  /\ waitTimers' = [waitTimers EXCEPT ![oid] = "fired"]
  /\ outcome' = CancelOidReplyOutcome(oid, "request timeout")
  /\ waitForResp' = CancelOidReplyRegistry(oid)
  /\ ret' = Quiet
  /\ UNCHANGED <<isPublicClient, oidSeqId, handlers, isAuthorized, socket,
                 transport, connectP, authP, authFor, authSendCb, callOid,
                 sendCb, sent, authVia>>
  /\ UNCHANGED restVars


\* ------------------------------------------------------ inbound messages
\* the handler registered by connect() on 'disconnected'
OnDisconnected ==
  /\ isAuthorized' = FALSE
  /\ outcome' = CancelAllOutcome("disconnected from server")
  /\ waitTimers' = CancelAllTimers
  /\ waitForResp' = CancelAllRegistry
  /\ ret' = Quiet
  /\ UNCHANGED <<handlers, connectP, authP, authFor, authSendCb, sent>>

NextAuth == CHOOSE h \in Auths : authFor[h] = 0 /\ \A g \in Auths : g < h => authFor[g] # 0

\* (variant) runs the handshake for public clients as well
OnConnectedHandshake(c0) ==
  /\ IF ~SocketOpen
       THEN /\ connectP' = [connectP EXCEPT ![c0] =
                              PromiseReject(@, "Client is not connected", NoOid, FALSE)]
            /\ ret' = Quiet
            /\ UNCHANGED <<handlers, authP, authFor, authSendCb, sent>>
       ELSE /\ \E h \in Auths : authFor[h] = 0
            /\ LET h == NextAuth IN
                 /\ handlers' = [handlers EXCEPT !["auth"] = Internal("auth", h)]
                 /\ authP' = [authP EXCEPT ![h] = Pending]
                 /\ authFor' = [authFor EXCEPT ![h] = c0]
                 /\ authSendCb' = [authSendCb EXCEPT ![h] = "pending"]
                 /\ sent' = sent \cup {[conn |-> socket, e |-> "auth", oid |-> AuthOid, n |-> h]}
                 /\ ret' = Quiet
            /\ UNCHANGED connectP
  /\ UNCHANGED <<isAuthorized, outcome, waitTimers, waitForResp>>

\* the handler registered by connect() number c0 on 'connected':
\*   if (!isPublicClient) await this.#auth(); resolve()   /   catch -> reject(err)
OnConnected(c0) ==
  /\ IF isPublicClient
       THEN /\ connectP' = [connectP EXCEPT ![c0] = PromiseResolve(@, NoData)]
            /\ ret' = Quiet
            /\ UNCHANGED <<handlers, authP, authFor, authSendCb, sent>>
       ELSE IF ~SocketOpen
         THEN \* #auth rejects at once: 'Client is not connected'
              /\ connectP' = [connectP EXCEPT ![c0] =
                                PromiseReject(@, "Client is not connected", NoOid, FALSE)]
              /\ ret' = Quiet
              /\ UNCHANGED <<handlers, authP, authFor, authSendCb, sent>>
         ELSE \* #auth registers the 'auth' handler and sends the auth frame
              /\ \E h \in Auths : authFor[h] = 0
              /\ LET h == NextAuth IN
                   /\ handlers' = [handlers EXCEPT !["auth"] = Internal("auth", h)]
                   /\ authP' = [authP EXCEPT ![h] = Pending]
                   /\ authFor' = [authFor EXCEPT ![h] = c0]
                   /\ authSendCb' = [authSendCb EXCEPT ![h] = "pending"]
                   /\ sent' = sent \cup {[conn |-> socket, e |-> "auth", oid |-> AuthOid, n |-> h]}
                   /\ ret' = Quiet
              /\ UNCHANGED connectP
  /\ UNCHANGED <<isAuthorized, outcome, waitTimers, waitForResp>>

AuthFailure(e) == "Authorization failure: " \o e

\* the handler registered by #auth invocation h on 'auth', and the
\* continuation of the 'connected' handler that awaits its promise
OnAuthAuthorized(h, m) ==
  IF m.data.ok = "ok" THEN TRUE ELSE isAuthorized

OnAuthConnectP(h, m) ==
  IF authP[h].st # "pending"
    THEN connectP
    ELSE IF m.data.ok = "ok"
      THEN [connectP EXCEPT ![authFor[h]] = PromiseResolve(@, NoData)]
      ELSE [connectP EXCEPT ![authFor[h]] =
              PromiseReject(@, AuthFailure(m.data.error), NoOid, FALSE)]

OnAuth(h, m) ==
  /\ isAuthorized' = OnAuthAuthorized(h, m)
  /\ authP' = [authP EXCEPT ![h] =
                 IF m.data.ok = "ok"
                   THEN PromiseResolve(@, NoData)
                   ELSE PromiseReject(@, AuthFailure(m.data.error), NoOid, FALSE)]
  /\ connectP' = OnAuthConnectP(h, m)
  /\ ret' = Quiet
  /\ UNCHANGED <<handlers, authFor, authSendCb, sent, outcome, waitTimers, waitForResp>>

\* (variant) after the callback the frame is also handed to the registry
OnUserFallThrough(cb, m) ==
  /\ ret' = RetReply(cb, m)
  /\ waitForResp' = IF m.oid \in DOMAIN waitForResp
                      THEN Delete(waitForResp, m.oid) ELSE waitForResp
  /\ outcome' = IF m.oid \in DOMAIN waitForResp
                  THEN [outcome EXCEPT ![waitForResp[m.oid]] = PromiseResolve(@, m.data)]
                  ELSE outcome
  /\ UNCHANGED <<handlers, isAuthorized, connectP, authP, authFor, authSendCb,
                 sent, waitTimers>>

\* a callback registered with subscribe(), called with the message
OnUser(cb, m) ==
  /\ ret' = RetReply(cb, m)
  /\ UNCHANGED <<handlers, isAuthorized, connectP, authP, authFor, authSendCb,
                 sent, outcome, waitTimers, waitForResp>>

\* (variant) settles the oldest pending call instead of the one the oid names
ReplyOutcomeOldest(m) ==
  LET k == CHOOSE j \in Calls :
             /\ outcome[j].st = "pending"
             /\ \A i \in Calls : outcome[i].st = "pending" => j <= i
  IN IF m.ok = "ok"
       THEN [outcome EXCEPT ![k] = PromiseResolve(@, m.data)]
       ELSE IF m.data.present
         THEN [outcome EXCEPT ![k] = PromiseReject(@, m.data.error, NoOid, FALSE)]
         ELSE outcome

\* #handleOidReply(message), message.oid in the registry
ReplyOutcome(m) ==
  LET k == waitForResp[m.oid] IN
  IF m.ok = "ok"
    THEN [outcome EXCEPT ![k] = PromiseResolve(@, m.data)]
    ELSE IF m.data.present
      THEN [outcome EXCEPT ![k] = PromiseReject(@, m.data.error, NoOid, FALSE)]
      ELSE outcome   \* message.data.error throws a TypeError

\* (variant) settles the defer but leaves it registered
ReplyRegistryKeep(m) == waitForResp

ReplyRegistry(m) == Delete(waitForResp, m.oid)

ReplyTimers(m) == [waitTimers EXCEPT ![m.oid] = ClearTimeout(@)]

\* (variant) without the `=== undefined` test: p is undefined and p.resolve throws
HandleOidReplyNoGuard(m) ==
  /\ IF m.oid \notin DOMAIN waitForResp
       THEN /\ ret' = RetReply("TypeError", m)
            /\ UNCHANGED <<outcome, waitTimers, waitForResp>>
       ELSE /\ waitForResp' = ReplyRegistry(m)
            /\ waitTimers' = ReplyTimers(m)
            /\ outcome' = ReplyOutcome(m)
            /\ ret' = RetReply(IF m.ok = "ok" \/ m.data.present
                                  THEN "reply" ELSE "TypeError", m)
  /\ UNCHANGED <<handlers, isAuthorized, connectP, authP, authFor, authSendCb, sent>>

HandleOidReply(m) ==
  /\ IF m.oid \notin DOMAIN waitForResp
       THEN /\ ret' = RetOid("message", "no handler for oid", m.oid)
            /\ UNCHANGED <<outcome, waitTimers, waitForResp>>
       ELSE /\ waitForResp' = ReplyRegistry(m)
            /\ waitTimers' = ReplyTimers(m)
            /\ outcome' = ReplyOutcome(m)
            /\ ret' = RetReply(IF m.ok = "ok" \/ m.data.present
                                  THEN "reply" ELSE "TypeError", m)
  /\ UNCHANGED <<handlers, isAuthorized, connectP, authP, authFor, authSendCb, sent>>

\* neither a handler nor an oid: 'pong' is dropped, anything else is logged
Drop(m) ==
  /\ ret' = RetReply("dropped", m)
  /\ UNCHANGED <<handlers, isAuthorized, connectP, authP, authFor, authSendCb,
                 sent, outcome, waitTimers, waitForResp>>

\* what the server can send on connection c: named events, a reply to the
\* auth frame if one was sent on c, replies (also late or repeated ones) to
\* the requests sent on c, and a reply to a request this client never made
InboundFrames(c) ==
  NamedFrames
  \cup (IF \E f \in sent : f.conn = c /\ f.e = "auth" THEN AuthFrames ELSE {})
  \cup ReplyFrames({f.oid : f \in {g \in sent : g.conn = c /\ g.e \in Methods}})

\* #handleMessage(dataStr), the 'message' listener of connection c
HandleMessage(c, m) ==
  /\ transport[c] \in {"OPEN", "CLOSING"}
  /\ m \in InboundFrames(c)
  /\ LET h == HandlerOf(m.e) IN
       CASE h.kind = "disconnected" -> OnDisconnected
         [] h.kind = "connected" -> OnConnected(h.n)
         [] h.kind = "auth" -> OnAuth(h.n, m)
         [] h.kind = "user" -> OnUser(h.cb, m)
         [] h.kind = "none" /\ m.oid # NoOid -> HandleOidReply(m)
         [] OTHER -> Drop(m)
  /\ authVia' = [h \in Auths |->
                    IF authP[h].st = "pending" /\ authP'[h].st # "pending"
                      THEN c ELSE authVia[h]]
  /\ UNCHANGED <<isPublicClient, oidSeqId, socket, transport, callOid, sendCb>>
  /\ UNCHANGED restVars

\* the callback of socket.send(authRequest, err => { if (err) reject(err) })
AuthSendCallback(h, err) ==
  /\ authSendCb[h] = "pending"
  /\ authSendCb' = [authSendCb EXCEPT ![h] = "done"]
  /\ IF err = "undefined"
       THEN UNCHANGED <<authP, connectP>>
       ELSE /\ authP' = [authP EXCEPT ![h] = PromiseReject(@, err, NoOid, FALSE)]
            /\ connectP' = IF authP[h].st = "pending"
                             THEN [connectP EXCEPT ![authFor[h]] =
                                     PromiseReject(@, err, NoOid, FALSE)]
                             ELSE connectP
  /\ ret' = Quiet
  /\ UNCHANGED <<isPublicClient, oidSeqId, handlers, waitForResp, waitTimers,
                 isAuthorized, socket, transport, authFor, callOid, outcome,
                 sendCb, sent, authVia>>
  /\ UNCHANGED restVars

\* ------------------------------------------------------------------ spec
CloseReasons == {"undefined", "1006"}
ErrorReasons == {"ECONNRESET"}
SendErrors == {"undefined", "EPIPE"}

NumConns == Cardinality({c \in Conns : transport[c] # "NONE"})
NumAuths == Cardinality({h \in Auths : authFor[h] # 0})

\* one connection, several requests in flight, public or private client
RegScope ==
  /\ NumConns <= RegConns
  /\ NumAuths <= RegAuths
  /\ oidSeqId <= RegCalls

NextRegistry ==
  \/ Connect /\ RegScope'
  \/ \E c \in Conns : TransportOpen(c)
  \/ \E c \in Conns, err \in CloseReasons : CloseEvent(c, err)
  \/ \E c \in Conns, err \in ErrorReasons : ErrorEvent(c, err)
  \/ Disconnect
  \/ Ping
  \/ \E mt \in Methods, now \in Times : CallPublic(mt, now) /\ RegScope'
  \/ \E mt \in Methods, now \in Times : CallPrivate(mt, now) /\ RegScope'
  \/ \E k \in Calls, err \in SendErrors : SendCallback(k, err)
  \/ \E o \in DOMAIN waitTimers : TimerFire(o)
  \/ \E c \in Conns : \E m \in InboundFrames(c) : HandleMessage(c, m) /\ RegScope'
  \/ \E h \in Auths, err \in SendErrors : AuthSendCallback(h, err)

SpecRegistry == Init /\ [][NextRegistry]_vars

\* the event loop runs a timer that is due, and a WebSocket that is closing,
\* after close() or after an error, emits its 'close' event
ClosingDelivered ==
  \E c \in Conns, err \in CloseReasons :
    transport[c] \in {"CLOSING", "ERRORED"} /\ CloseEvent(c, err)

TimersFire == \E o \in DOMAIN waitTimers : TimerFire(o)

SpecRegistryFair ==
  SpecRegistry /\ WF_vars(TimersFire) /\ WF_vars(ClosingDelivered)

\* a private client that reconnects: the caller connects again only after
\* disconnect(), or after a close or error event, of the connection before,
\* and calls disconnect() only on an open connection
SesScope ==
  /\ NumConns <= SesConns
  /\ NumAuths + oidSeqId <= SesWork

Reconnecting == \A c \in Conns : transport[c] \notin {"CONNECTING", "OPEN"}

SesFrames(c) ==
  {m \in InboundFrames(c) : m.e \notin {"pong", "tick"} /\ m.oid # StaleOid}

Next ==
  \/ Connect /\ Reconnecting /\ SesScope'
  \/ \E c \in Conns : TransportOpen(c)
  \/ \E c \in Conns, err \in CloseReasons : CloseEvent(c, err)
  \/ \E c \in Conns, err \in ErrorReasons : ErrorEvent(c, err)
  \/ Disconnect /\ SocketOpen
  \/ \E mt \in Methods, now \in Times : CallPrivate(mt, now) /\ SesScope'
  \/ \E k \in Calls, err \in SendErrors : SendCallback(k, err)
  \/ \E o \in DOMAIN waitTimers : TimerFire(o)
  \/ \E c \in Conns : \E m \in SesFrames(c) : HandleMessage(c, m) /\ SesScope'
  \/ \E h \in Auths, err \in SendErrors : AuthSendCallback(h, err)

Spec == InitPrivate /\ [][Next]_vars

\* user code subscribing to event names, also to the names the client uses
\* itself, around one connection with one request
DispCalls == 1

DispScope ==
  /\ NumConns <= RegConns
  /\ NumAuths <= RegAuths
  /\ oidSeqId <= DispCalls

DispFrames(c) == {m \in InboundFrames(c) : m.oid # StaleOid /\ m.ok # "error"}

NextDispatch ==
  \/ Connect /\ DispScope'
  \/ \E c \in Conns : TransportOpen(c)
  \/ \E c \in Conns : CloseEvent(c, "undefined")
  \/ \E e \in EventNames, cb \in UserCallbacks : Subscribe(e, cb)
  \/ \E mt \in Methods, now \in Times : CallPublic(mt, now) /\ DispScope'
  \/ \E mt \in Methods, now \in Times : CallPrivate(mt, now) /\ DispScope'
  \/ \E k \in Calls : SendCallback(k, "undefined")
  \/ \E o \in DOMAIN waitTimers : TimerFire(o)
  \/ \E c \in Conns : \E m \in DispFrames(c) : HandleMessage(c, m) /\ DispScope'
  \/ \E h \in Auths : AuthSendCallback(h, "undefined")

SpecDispatch == Init /\ [][NextDispatch]_vars


\* user code that subscribes at any time while the client connects,
\* loses or closes the connection and connects again; no requests
SubScope ==
  /\ NumConns <= SesConns
  /\ NumAuths <= RegAuths
  /\ oidSeqId = 0

SubFrames(c) == {m \in InboundFrames(c) : m.oid # StaleOid}

\* the names user code subscribes to: one of its own, one the client uses
SubNames == {"tick", "disconnected"}

NextSubscribe ==
  \/ Connect /\ Reconnecting /\ SubScope'
  \/ \E c \in Conns : TransportOpen(c)
  \/ \E c \in Conns : CloseEvent(c, "undefined")
  \/ \E c \in Conns, err \in ErrorReasons : ErrorEvent(c, err)
  \/ Disconnect
  \/ \E e \in SubNames, cb \in UserCallbacks : Subscribe(e, cb)
  \/ \E c \in Conns : \E m \in SubFrames(c) : HandleMessage(c, m) /\ SubScope'
  \/ \E h \in Auths : AuthSendCallback(h, "undefined")

SpecSubscribe == Init /\ [][NextSubscribe]_vars


\* a public client that makes requests at different times, loses the
\* connection and connects again
OidScope ==
  /\ NumConns <= SesConns
  /\ oidSeqId <= OidCalls

\* Date.now() as #callRequest reads it
Now == Epoch + clock

OidTimes == Epoch..(Epoch + MaxClock)

OidFrames(c) ==
  {m \in InboundFrames(c) : m.e \in Methods \cup {"connected"} /\ m.oid # StaleOid /\ m.ok # "error"}

InitPublic == isPublicClient = TRUE /\ InitClient /\ InitRestClient(<<TRUE, "undefined">>)

NextOid ==
  \/ Connect /\ Reconnecting /\ OidScope'
  \/ \E c \in Conns : TransportOpen(c)
  \/ \E c \in Conns : CloseEvent(c, "undefined")
  \/ ClockTick
  \/ \E mt \in Methods : CallPublic(mt, Now) /\ OidScope'
  \/ \E o \in DOMAIN waitTimers : TimerFire(o)
  \/ \E c \in Conns : \E m \in OidFrames(c) : HandleMessage(c, m)

SpecOid == InitPublic /\ [][NextOid]_vars

\* the value #handleOidReply settles a defer with, for frame m
SettledBy(m) ==
  IF m.ok = "ok"
    THEN [Pending EXCEPT !.st = "resolved", !.data = m.data]
    ELSE [Pending EXCEPT !.st = "rejected", !.error = m.data.error]

Settled(p) == p.st \in {"resolved", "rejected"}

\* C1: whenever a correlated reply is handed to the registry, the only call
\* whose future changes is the call registered under the oid the reply
\* carries, and it is settled with that reply's payload; no other step
\* resolves a call, and no other step rejects one with a plain server error.
C1_ReplyMatchesOwnOid ==
  [][ /\ ret'.op = "message" /\ ret'.res \in {"reply", "TypeError"} =>
           \A k \in Calls :
             outcome'[k] # outcome[k] =>
               /\ callOid[k] = ret'.oid
               /\ ret'.oid \in DOMAIN waitForResp
               /\ waitForResp[ret'.oid] = k
               /\ outcome'[k] = SettledBy(ret'.msg)
      /\ \A k \in Calls :
           /\ outcome[k].st = "pending"
           /\ \/ outcome'[k].st = "resolved"
              \/ outcome'[k].st = "rejected" /\ ~outcome'[k].unexpectedError
           => /\ ret'.op = "message" /\ ret'.res = "reply"
              /\ ret'.oid = callOid[k]
              /\ outcome'[k] = SettledBy(ret'.msg)
    ]_vars

\* two calls were in flight and the reply of the later one came first
C1_Witness ==
  /\ outcome[1].st = "pending"
  /\ callOid[1] \in DOMAIN waitForResp
  /\ outcome[2] = SettledBy(Frame("", callOid[2], "ok", DataVal("p1")))
  /\ ret = RetReply("reply", Frame("", callOid[2], "ok", DataVal("p1")))

TimedOut(o) ==
  [Pending EXCEPT !.st = "rejected", !.error = "request timeout", !.oid = o,
                  !.unexpectedError = TRUE]

Closed(o, reason) ==
  [Pending EXCEPT !.st = "rejected", !.error = reason, !.oid = o,
                  !.unexpectedError = TRUE]

RegistryVars == <<oidSeqId, waitForResp, waitTimers, callOid, outcome, sendCb, sent>>
SessionVars == <<isPublicClient, handlers, isAuthorized, socket, transport,
                 connectP, authP, authFor, authSendCb, authVia>>

\* C2: a settled call never changes again; the step that settles a call
\* removes its entry from the registry, so a settled call is never registered;
\* a reply that carries the oid of a settled call finds no entry, settles
\* nothing and changes no state.
C2_SettledAtMostOnce ==
  [][ \A k \in Calls :
        /\ Settled(outcome[k]) => outcome'[k] = outcome[k]
        /\ Settled(outcome'[k]) =>
             ~(callOid[k] \in DOMAIN waitForResp' /\ waitForResp'[callOid[k]] = k)
        /\ Settled(outcome[k]) /\ ret'.op = "message" /\ ret'.oid = callOid[k] =>
             /\ ret'.res = "no handler for oid"
             /\ UNCHANGED <<RegistryVars, SessionVars>>
    ]_vars

\* a second reply for an oid whose call the first reply resolved
C2_Witness ==
  /\ outcome[1].st = "resolved"
  /\ ret = RetOid("message", "no handler for oid", callOid[1])

C6_SendErrorRejects ==
  [][ \A k \in Calls : \A err \in SendErrors \ {"undefined"} :
        /\ SendCallback(k, err)
        /\ outcome[k].st = "pending"
        /\ callOid[k] \in DOMAIN waitForResp
        => /\ outcome'[k].st = "rejected"
           /\ outcome'[k].error = err
    ]_vars

\* C7 (as claimed, for armed timers): every oid whose timer is armed is
\* registered.
C7_NoTimerLeak ==
  \A o \in DOMAIN waitTimers : waitTimers[o] = "armed" => o \in DOMAIN waitForResp

\* a request through the entry point that fits the kind of client
RequestMade(r) ==
  /\ r.op \in {"callPublic", "callPrivate"}
  /\ (r.op = "callPublic") = isPublicClient

\* the client holds no socket, or one that is not in the OPEN state
NotOpen == socket = 0 \/ transport[socket] # "OPEN"

\* C8 (as claimed): a request made while the socket is not open fails with
\* 'Not connected' and changes neither the registry, the timers nor the frames sent.
C8_NotOpenIsNotConnected ==
  [][ RequestMade(ret') /\ NotOpen =>
        /\ ret'.res = "Not connected"
        /\ UNCHANGED RegistryVars
    ]_vars

\* C8 (amended): a request made while the socket is not open fails and changes
\* neither the registry, the timers nor the frames sent; callPrivate on a
\* client that is not authorized fails with 'Not authorized', every other
\* request with 'Not connected'.
C8_NotOpenFails ==
  [][ RequestMade(ret') /\ NotOpen =>
        /\ ret'.res = IF ret'.op = "callPrivate" /\ ~isAuthorized
                        THEN "Not authorized" ELSE "Not connected"
        /\ UNCHANGED RegistryVars
    ]_vars

\* callPrivate on an authorized client whose socket is closing
C8_Witness ==
  /\ ret = Ret("callPrivate", "Not connected")
  /\ isAuthorized
  /\ NotOpen

\* no auth frame has been sent on the socket the client holds, so no
\* handshake of the current connection can have succeeded
NoHandshake ==
  socket = 0 \/ \A f \in sent : ~(f.conn = socket /\ f.e = "auth")

\* C5 (as claimed): on a private client, callPrivate made while the handshake
\* of the current connection has not succeeded fails with 'Not authorized',
\* sends no frame and registers no call.
C5_NotAuthorizedWithoutHandshake ==
  [][ ~isPublicClient /\ ret'.op = "callPrivate" /\ NoHandshake =>
        /\ ret'.res = "Not authorized"
        /\ UNCHANGED RegistryVars
    ]_vars

\* C9: once the promise returned by a connect() is resolved or rejected, no
\* 'connected' frame, auth reply, send callback, close event or error event
\* changes it.
C9_ConnectSettlesOnce ==
  [][ \A c \in Conns : Settled(connectP[c]) => connectP'[c] = connectP[c] ]_vars

\* the close event of a connection whose connect() had resolved: its handler
\* calls reject on the resolved promise
C9_Witness ==
  \E c \in Conns :
    /\ connectP[c].st = "resolved"
    /\ transport[c] = "CLOSED"

\* C10 (as claimed): on a private client the step that resolves the promise
\* of connect() number c is the receipt, on the WebSocket that connect()
\* created, of an auth reply with data.ok = 'ok'; the client is authorized
\* after that step; and a close or error event of that WebSocket while the
\* promise is pending rejects it.
C10_ResolvesAfterAuthOnConnection ==
  [][ \A c \in Conns :
        /\ connectP[c].st = "pending" /\ connectP'[c].st = "resolved" =>
             /\ isAuthorized'
             /\ \E h \in Auths :
                  /\ authFor[h] = c
                  /\ authP'[h].st = "resolved"
                  /\ authVia'[h] = c
        /\ /\ connectP[c].st = "pending"
           /\ transport[c] # transport'[c]
           /\ transport'[c] \in {"CLOSED", "ERRORED"}
           => connectP'[c].st = "rejected"
    ]_vars

\* C11 (as claimed): the step in which an auth reply with data.ok different
\* from 'ok' fails the handshake of a connect() that is still pending rejects
\* that connect() with 'Authorization failure: <error text of the server>'
\* and leaves the client not authorized.
C11_AuthFailureNotAuthorized ==
  [][ \A h \in Auths :
        /\ authP[h].st = "pending"
        /\ connectP[authFor[h]].st = "pending"
        /\ authP'[h].st = "rejected"
        /\ authP'[h].error = "Authorization failure: bad signature"
        => /\ connectP'[authFor[h]].st = "rejected"
           /\ connectP'[authFor[h]].error = "Authorization failure: bad signature"
           /\ ~isAuthorized'
    ]_vars

\* C12 (as claimed): after the step that handles a close event or an error
\* event the client holds no socket, is not authorized and has an empty
\* registry.
C12_DisconnectedAfterCloseOrError ==
  [][ \A c \in Conns :
        /\ transport'[c] # transport[c]
        /\ transport'[c] \in {"CLOSED", "ERRORED"}
        => /\ socket' = 0
           /\ ~isAuthorized'
           /\ waitForResp' = EmptyMap
    ]_vars

\* C20 (as claimed): for each connect() at most one auth frame is sent.
C20_OneAuthFramePerConnect ==
  \A c \in Conns :
    Cardinality({f \in sent : f.e = "auth" /\ authFor[f.n] = c}) <= 1

\* C16: a reply whose oid is not in the registry is only logged: the step
\* throws nothing and changes neither the registry, the timers, the calls, the
\* authorization flag, the socket nor the handler table.
C16_UnknownOidChangesNothing ==
  [][ /\ ret'.op = "message"
      /\ ret'.res \notin UserCallbacks
      /\ ret'.oid # NoOid
      /\ ret'.oid \notin DOMAIN waitForResp
      => /\ ret'.res = "no handler for oid"
         /\ UNCHANGED <<RegistryVars, SessionVars>>
    ]_vars

\* a reply for an oid the client never issued, while a call is pending
C16_Witness ==
  /\ ret = RetOid("message", "no handler for oid", StaleOid)
  /\ outcome[1].st = "pending"
  /\ callOid[1] \in DOMAIN waitForResp
  /\ waitTimers[callOid[1]] = "armed"

\* C17: the step in which the timer of one oid fires changes no call other
\* than the one registered under that oid: every other call keeps its
\* promise, its registry entry and its timer.
C17_TimeoutSparesSiblings ==
  [][ \A o \in DOMAIN waitTimers :
        waitTimers[o] = "armed" /\ waitTimers'[o] = "fired" =>
          \A k \in Calls :
            callOid[k] # o /\ callOid[k] # NoOid =>
              /\ outcome'[k] = outcome[k]
              /\ callOid[k] \in DOMAIN waitForResp =>
                   /\ callOid[k] \in DOMAIN waitForResp'
                   /\ waitForResp'[callOid[k]] = waitForResp[callOid[k]]
              /\ waitTimers'[callOid[k]] = waitTimers[callOid[k]]
    ]_vars

\* the first of two calls timed out, the second is still waiting
C17_Witness ==
  /\ outcome[1] = TimedOut(callOid[1])
  /\ outcome[2].st = "pending"
  /\ callOid[2] \in DOMAIN waitForResp
  /\ waitTimers[callOid[2]] = "armed"

\* C18: disconnect() changes something only when the client holds a socket in
\* the OPEN state; otherwise no socket starts closing and the socket, the
\* authorization flag, the registry, the timers and the handler table stay
\* as they are.
C18_DisconnectNoopUnlessOpen ==
  [][ /\ ret'.op = "disconnect" =>
           /\ NotOpen
           /\ UNCHANGED <<RegistryVars, SessionVars>>
      /\ \A c \in Conns :
           transport[c] # "CLOSING" /\ transport'[c] = "CLOSING" =>
             socket = c /\ transport[c] = "OPEN"
    ]_vars

\* a second disconnect() on an authorized client whose socket is closing
C18_Witness ==
  /\ ret = Ret("disconnect", "noop")
  /\ socket # 0
  /\ transport[socket] = "CLOSING"
  /\ isAuthorized

\* C19: ping() throws 'Not connected' when the socket is not open and
\* otherwise sends the ping frame; in both cases it registers nothing and arms
\* no timer; an inbound 'pong' frame is dropped and changes no state.
C19_PingAndPong ==
  [][ /\ ret'.op = "ping" =>
           /\ ret'.res = IF NotOpen THEN "Not connected" ELSE "sent"
           /\ UNCHANGED <<RegistryVars, SessionVars>>
      /\ ret'.op = "message" /\ ret'.msg.e = "pong" =>
           /\ ret'.res = "dropped"
           /\ UNCHANGED <<RegistryVars, SessionVars>>
    ]_vars

\* a pong arrives while a call is waiting for its reply
C19_Witness ==
  /\ ret = RetReply("dropped", Frame("pong", NoOid, "undefined", NoData))
  /\ outcome[1].st = "pending"
  /\ waitTimers[callOid[1]] = "armed"

\* C13 (as claimed): a frame handled by a user callback is handled by the
\* callback subscribed last for its name; subscribe() writes one entry only;
\* and the entry of a name that user code has subscribed to is replaced by
\* nothing but a later subscribe(), so every later frame of that name reaches
\* the callback subscribed last.
C13_SubscribeLastWriterWins ==
  [][ /\ ret'.op = "message" /\ ret'.res \in UserCallbacks =>
           handlers[ret'.msg.e] = UserHandler(ret'.res)
      /\ \A e \in EventNames :
           /\ handlers[e].kind = "user" => handlers'[e].kind = "user"
           /\ handlers'[e].kind = "user" /\ handlers'[e] # handlers[e] =>
                \A d \in EventNames \ {e} : handlers'[d] = handlers[d]
    ]_vars

\* C14 (as claimed): a 'disconnected' frame leaves the client not authorized
\* with an empty registry, and a 'connected' frame on a socket whose connect()
\* is pending starts the handshake or resolves that connect(), also when the
\* frame is handed to a callback that user code subscribed for the name.
C14_BookkeepingDespiteSubscribe ==
  [][ /\ ret'.op = "message" /\ ret'.msg.e = "disconnected" =>
           /\ ~isAuthorized'
           /\ waitForResp' = EmptyMap
      /\ /\ ret'.op = "message" /\ ret'.msg.e = "connected"
         /\ socket # 0 /\ connectP[socket].st = "pending"
         => \/ connectP'[socket].st # "pending"
            \/ sent' # sent
    ]_vars

\* C15: a frame whose name has a subscribed callback is handed to that
\* callback only, also when it carries the oid of a registered call: the
\* registry, the timers and the calls do not change.  A frame reaches the
\* registry only if its name has no handler and it carries an oid, and a
\* frame with neither is dropped with no change of state.
C15_HandlerBeforeOid ==
  [][ /\ ret'.op = "message" /\ ret'.res \in UserCallbacks =>
           /\ handlers[ret'.msg.e] = UserHandler(ret'.res)
           /\ UNCHANGED <<RegistryVars, SessionVars>>
      /\ ret'.op = "message" /\ ret'.res \in {"reply", "TypeError"} =>
           /\ HandlerOf(ret'.msg.e).kind = "none"
           /\ ret'.oid # NoOid
      /\ ret'.op = "message" /\ ret'.res = "no handler for oid" =>
           ret'.oid # NoOid
      /\ ret'.op = "message" /\ ret'.res = "dropped" =>
           /\ HandlerOf(ret'.msg.e).kind = "none"
           /\ ret'.msg.oid = NoOid
           /\ UNCHANGED <<RegistryVars, SessionVars>>
      /\ \A k \in Calls :
           outcome[k].st = "pending" /\ outcome'[k].st = "resolved" =>
             HandlerOf(ret'.msg.e).kind = "none"
    ]_vars

\* a frame named 'tick' that carries the oid of the waiting call, after user
\* code subscribed to 'tick'
C15_Witness ==
  /\ ret = RetReply("h1", Frame("tick", callOid[1], "ok", DataVal("p1")))
  /\ outcome[1].st = "pending"
  /\ callOid[1] \in DOMAIN waitForResp
  /\ waitTimers[callOid[1]] = "armed"

\* C21 (as claimed): once an auth reply has settled the handshake whose
\* handler is registered on 'auth', no step makes an unauthorized client
\* authorized until a new handshake registers its handler.
C21_AuthHandlerOneShot ==
  [][ \A h \in Auths :
        /\ handlers["auth"] = Internal("auth", h)
        /\ authVia[h] # 0
        /\ ~isAuthorized
        => ~isAuthorized'
    ]_vars

\* C26 (as claimed): every step that removes an oid from the registry settles
\* the call registered under it.
C26_RemovalSettles ==
  [][ \A o \in DOMAIN waitForResp :
        o \notin DOMAIN waitForResp' => Settled(outcome'[waitForResp[o]])
    ]_vars

\* C27 (as claimed): every reply handed to a registered defer settles it in
\* the step that removes the entry: resolved with the data if ok = 'ok',
\* rejected otherwise, with or without a data object in the frame.
C27_ReplyAlwaysSettles ==
  [][ /\ ret'.op = "message"
      /\ ret'.res \in {"reply", "TypeError"}
      /\ ret'.oid \in DOMAIN waitForResp
      => /\ ret'.oid \notin DOMAIN waitForResp'
         /\ outcome'[waitForResp[ret'.oid]].st =
              IF ret'.msg.ok = "ok" THEN "resolved" ELSE "rejected"
    ]_vars

\* C28 (as claimed): a close or error event of a WebSocket other than the one
\* the client holds changes neither the socket, nor the authorization flag,
\* nor the registry and the calls.
C28_StaleEventSparesNewConnection ==
  [][ \A c \in Conns :
        /\ transport'[c] # transport[c]
        /\ transport'[c] \in {"CLOSED", "ERRORED"}
        /\ socket # 0
        /\ socket # c
        => /\ socket' = socket
           /\ isAuthorized' = isAuthorized
           /\ waitForResp' = waitForResp
           /\ outcome' = outcome
    ]_vars

\* C23 (as claimed): when the auth reply with ok = 'ok' of the handshake of
\* a connect() arrives on the WebSocket of that connect(), still open, the
\* client is authorized and holds that WebSocket, which is what callPrivate
\* needs to register and send a request.
C23_ReusableAfterFailure ==
  [][ \A h \in Auths :
        /\ authP[h].st = "pending"
        /\ authP'[h].st = "resolved"
        /\ authVia'[h] = authFor[h]
        /\ transport[authFor[h]] = "OPEN"
        => /\ isAuthorized'
           /\ socket' = authFor[h]
    ]_vars

\* C24: on a public client no auth frame is ever sent and the client is never
\* authorized; connect() resolves only in the step that hands a frame to the
\* 'connected' handler of that connect(), with no handshake started;
\* callPublic on an open socket registers and sends the request; callPrivate
\* always throws and registers nothing.
C24_PublicSession ==
  [][ isPublicClient =>
        /\ ~isAuthorized'
        /\ \A f \in sent' : f.e # "auth"
        /\ \A h \in Auths : authFor'[h] = 0 /\ authP'[h] = NoPromise
        /\ \A c \in Conns :
             connectP[c].st = "pending" /\ connectP'[c].st = "resolved"
             => /\ handlers["connected"] = Internal("connected", c)
                /\ transport' = transport
                /\ \E d \in Conns : transport[d] \in {"OPEN", "CLOSING"}
                /\ sent' = sent
                /\ handlers' = handlers
        /\ ret'.op = "callPublic" /\ socket # 0 /\ transport[socket] = "OPEN"
             => /\ ret'.res = "registered"
                /\ ret'.oid \in DOMAIN waitForResp'
                /\ \E f \in sent' \ sent : f.oid = ret'.oid /\ f.conn = socket
        /\ ret'.op = "callPrivate"
             => /\ ret'.res = "Attempt to call private method on public client"
                /\ waitForResp' = waitForResp
                /\ sent' = sent
                /\ oidSeqId' = oidSeqId
    ]_vars

C24_Witness ==
  /\ isPublicClient
  /\ connectP[1].st = "resolved"
  /\ ret.op = "callPublic"
  /\ ret.res = "registered"
  /\ sent # {}

\* C22 (as claimed): with timers that fire, every call that was registered
\* and is pending is eventually resolved or rejected.
C22_EveryCallSettles ==
  \A k \in Calls : (outcome[k].st = "pending") ~> Settled(outcome[k])

\* C29 (as claimed, in its weakest reading): a call that is pending while the
\* transport is closing after disconnect() is settled by the time the close
\* event has been delivered and the client holds no socket, is not authorized
\* and has an empty registry.
C29_DisconnectSettlesPending ==
  \A c \in Conns, k \in Calls :
    (transport[c] = "CLOSING" /\ outcome[k].st = "pending")
      ~> (/\ socket = 0
          /\ ~isAuthorized
          /\ waitForResp = EmptyMap
          /\ Settled(outcome[k]))

\* the names the client registers handlers for itself
Reserved == {"connected", "disconnected", "auth"}

\* C30: the handler table entry of a name that is not reserved changes only
\* in a subscribe() step, which sets it to the given callback and touches
\* nothing else, so close, error, 'disconnected', disconnect() and connect()
\* leave it as it is; a frame with that name received on any connection is
\* handed to the callback the entry holds.
C30_SubscriptionsOutliveConnection ==
  [][ \A e \in EventNames \ Reserved :
        /\ handlers'[e] # handlers[e]
             => /\ handlers'[e].kind = "user"
                /\ transport' = transport
                /\ socket' = socket
                /\ isAuthorized' = isAuthorized
                /\ connectP' = connectP
                /\ waitForResp' = waitForResp
        /\ ret'.op = "message" /\ ret'.msg.e = e /\ handlers[e].kind = "user"
             => /\ ret'.res = handlers[e].cb
                /\ handlers' = handlers
    ]_vars

\* after a reconnect a 'tick' frame reached the subscribed callback
C30_Witness ==
  /\ transport[1] = "CLOSED"
  /\ transport[2] = "OPEN"
  /\ socket = 2
  /\ handlers["tick"] = UserHandler("h1")
  /\ ret = RetReply("h1", Frame("tick", NoOid, "undefined", NoData))

\* C25 (as claimed): once the limiter has rejected a call in a minute, every
\* further callPublic or callPrivate in that minute is rejected with the
\* rate limit error and makes no HTTP request.
C25_FurtherCallsRateLimited ==
  [][ /\ restRet'.op \in {"callPublic", "callPrivate"}
      /\ CurrentMinute <= lastMinute
      /\ requestCounter >= ApiLimit
      => /\ restRet'.res = RateLimitError
         /\ fetched' = fetched
    ]_vars

\* C25: in no minute more than apiLimit HTTP requests are made; once the
\* limiter has rejected a call in a minute, no further callPublic or
\* callPrivate in that minute makes an HTTP request, and each is rejected with
\* the rate limit error unless it is a callPrivate that throws before it
\* reaches the limiter (public client, or no apiSecret), which is not counted.
C25_RateLimit ==
  [][ /\ \A m \in Minutes : fetched'[m] <= ApiLimit
      /\ /\ restRet'.op \in {"callPublic", "callPrivate"}
         /\ CurrentMinute <= lastMinute
         /\ requestCounter >= ApiLimit
         => /\ fetched' = fetched
            /\ IF restRet'.op = "callPrivate" /\ (restIsPublicClient \/ apiSecret = "undefined")
                 THEN /\ restRet'.res # RateLimitError
                      /\ requestCounter' = requestCounter
                 ELSE /\ restRet'.res = RateLimitError
                      /\ requestCounter' = requestCounter + 1
    ]_vars

\* a second call was rejected in a minute in which requests were made
C25_Witness ==
  /\ restRet.res = RateLimitError
  /\ requestCounter > ApiLimit
  /\ lastMinute = CurrentMinute
  /\ fetched[CurrentMinute] > 0

\* C31 (as claimed): a call is rejected with the rate limit error only if
\* apiLimit calls have already been counted in the current minute.
C31_RejectsOnlyAfterApiLimit ==
  [][ /\ restRet'.res = RateLimitError
      /\ requestCounter' # requestCounter \/ lastMinute' # lastMinute
      => /\ CurrentMinute <= lastMinute
         /\ requestCounter >= ApiLimit
    ]_vars

\* C32: #oidSeqId never decreases and grows by one with every registration;
\* the oid of a new call differs from every oid generated before, so it is
\* neither in the registry nor in the timer table, and registering it leaves
\* every existing entry and timer as it was; the oid strings of different
\* sequence numbers differ whatever the two times are.
C32_FreshOid ==
  [][ /\ oidSeqId' >= oidSeqId
      /\ oidSeqId' # oidSeqId
         => /\ oidSeqId' = oidSeqId + 1
            /\ ret'.res = "registered"
            /\ callOid'[oidSeqId'] = ret'.oid
            /\ \A k \in Calls : callOid[k] # ret'.oid
            /\ ret'.oid \notin DOMAIN waitForResp
            /\ ret'.oid \notin DOMAIN waitTimers
            /\ \A o \in DOMAIN waitForResp : waitForResp'[o] = waitForResp[o]
            /\ \A o \in DOMAIN waitTimers : waitTimers'[o] = waitTimers[o]
            /\ \A t1, t2 \in OidTimes : \A s1, s2 \in 1..OidSeqs :
                 s1 # s2 => MakeOid(t1, s1, ret'.oid[2]) # MakeOid(t2, s2, ret'.oid[2])
    ]_vars

\* the third call was registered on the second connection while an earlier
\* call of that connection was pending
C32_Witness ==
  /\ transport[1] = "CLOSED"
  /\ socket = 2
  /\ oidSeqId = 3
  /\ ret = RetOid("callPublic", "registered", callOid[3])
  /\ callOid[2] \in DOMAIN waitForResp
  /\ callOid[3] \in DOMAIN waitForResp
  /\ outcome[1].st = "rejected"

====
